---- MODULE Spec2Model ----
(***************************************************************************)
(* Gomoku board demo (Bevy 0.10): src/src/main.rs.                         *)
(*                                                                         *)
(* Three per-frame systems are modelled -- mouse_movement_system,          *)
(* mouse_click_system and update_bloom_settings -- together with the       *)
(* engine services they consume: the per-frame input snapshot, the         *)
(* CursorMoved event batch, the deferred Commands queue that is applied    *)
(* after the systems of a frame have run, and the scheduler, which is      *)
(* given no ordering constraint between the three systems (main, lines     *)
(* 18-20) and therefore may run them in any order within a frame.          *)
(*                                                                         *)
(* All numbers of the program are f32.  They are modelled as binary        *)
(* floating-point values with a 24 bit significand and round-to-nearest,   *)
(* ties-to-even arithmetic; see the section "f32 arithmetic".              *)
(***************************************************************************)
EXTENDS Integers, Sequences, FiniteSets, TLC

-----------------------------------------------------------------------------
(* f32 arithmetic.                                                         *)
(* A value is <<s, e, m>> and stands for (-1)^s * m * 2^e, with m = 0      *)
(* (zero, written <<0, 0, 0>>) or 2^23 <= m < 2^24.  Infinities, NaN,      *)
(* subnormals and the sign of zero are outside the values the program      *)
(* reaches with the inputs used here.  Every intermediate integer stays    *)
(* below 2^31.                                                             *)

Zero == <<0, 0, 0>>

Sign(a) == a[1]
Expo(a) == a[2]
Mant(a) == a[3]

RECURSIVE BitLen(_)
BitLen(n) == IF n = 0 THEN 0 ELSE 1 + BitLen(n \div 2)

\* M * 2^e (plus, when sticky, a nonzero amount below one unit of M) rounded
\* to 24 significant bits, nearest, ties to even.
RoundPack(s, e, M, sticky) ==
    IF M = 0 THEN Zero
    ELSE LET n == BitLen(M) IN
         IF n <= 24 THEN <<s, e - (24 - n), M * 2^(24 - n)>>
         ELSE LET k    == n - 24
                  q    == M \div 2^k
                  r    == M % 2^k
                  half == 2^(k - 1)
                  up   == r > half \/ (r = half /\ (sticky \/ q % 2 = 1))
                  q1   == IF up THEN q + 1 ELSE q
              IN IF q1 = 2^24 THEN <<s, e + k + 1, 2^23>> ELSE <<s, e + k, q1>>

FromInt(n) == IF n < 0 THEN RoundPack(1, 0, -n, FALSE) ELSE RoundPack(0, 0, n, FALSE)

Neg(a) == IF Mant(a) = 0 THEN a ELSE <<1 - Sign(a), Expo(a), Mant(a)>>

MagLt(a, b) ==
    IF Mant(b) = 0 THEN FALSE
    ELSE IF Mant(a) = 0 THEN TRUE
    ELSE Expo(a) < Expo(b) \/ (Expo(a) = Expo(b) /\ Mant(a) < Mant(b))

\* a < b
Lt(a, b) ==
    IF Sign(a) = 0 /\ Sign(b) = 0 THEN MagLt(a, b)
    ELSE IF Sign(a) = 1 /\ Sign(b) = 1 THEN MagLt(b, a)
    ELSE Sign(a) = 1

\* a + b
Add(a, b) ==
    IF Mant(a) = 0 THEN b
    ELSE IF Mant(b) = 0 THEN a
    ELSE LET big   == IF MagLt(a, b) THEN b ELSE a
             small == IF MagLt(a, b) THEN a ELSE b
             d     == Expo(big) - Expo(small)
             Mb    == Mant(big) * 8
             sh    == Mant(small) * 8
             Ms    == IF d >= 27 THEN 1
                      ELSE LET q == sh \div 2^d
                           IN IF sh % 2^d # 0 /\ q % 2 = 0 THEN q + 1 ELSE q
             M     == IF Sign(big) = Sign(small) THEN Mb + Ms ELSE Mb - Ms
         IN RoundPack(Sign(big), Expo(big) - 3, M, FALSE)

\* a - b
Sub(a, b) == Add(a, Neg(b))

\* a * b; the 48 bit product of the significands is formed from 12 bit halves
Mul(a, b) ==
    IF Mant(a) = 0 \/ Mant(b) = 0 THEN Zero
    ELSE LET ah  == Mant(a) \div 4096
             al  == Mant(a) % 4096
             bh  == Mant(b) \div 4096
             bl  == Mant(b) % 4096
             mid == ah * bl + al * bh
             c   == (mid % 4096) * 4096 + al * bl
             T   == ah * bh + (mid \div 4096) + (c \div 2^24)
             L   == c % 2^24
         IN RoundPack((Sign(a) + Sign(b)) % 2, Expo(a) + Expo(b) + 22,
                      T * 4 + (L \div 2^22), L % 2^22 # 0)

\* 26 steps of binary long division of r by dv; <<quotient, remainder>>
RECURSIVE DivSteps(_, _, _, _)
DivSteps(r, q, dv, n) ==
    IF n = 0 THEN <<q, r>>
    ELSE IF 2 * r >= dv THEN DivSteps(2 * r - dv, 2 * q + 1, dv, n - 1)
    ELSE DivSteps(2 * r, 2 * q, dv, n - 1)

\* a / b, b nonzero
Div(a, b) ==
    IF Mant(a) = 0 THEN Zero
    ELSE LET qr == DivSteps(Mant(a) % Mant(b), Mant(a) \div Mant(b), Mant(b), 26)
         IN RoundPack((Sign(a) + Sign(b)) % 2, Expo(a) - Expo(b) - 26,
                      qr[1], qr[2] # 0)

\* the integer floor(a), for |a| < 2^24
FloorInt(a) ==
    IF Mant(a) = 0 THEN 0
    ELSE IF Expo(a) >= 0 THEN (IF Sign(a) = 1 THEN -1 ELSE 1) * Mant(a) * 2^Expo(a)
    ELSE LET q    == IF -Expo(a) >= 24 THEN 0 ELSE Mant(a) \div 2^(-Expo(a))
             frac == IF -Expo(a) >= 24 THEN TRUE ELSE Mant(a) % 2^(-Expo(a)) # 0
         IN IF Sign(a) = 0 THEN q ELSE IF frac THEN -(q + 1) ELSE -q

\* f32::floor
Floor(a) == FromInt(FloorInt(a))

\* the f32 literal n/d (a decimal literal is the f32 nearest to its value)
Lit(n, d) == Div(FromInt(n), FromInt(d))

\* f32::clamp(min, max) and f32::max
Clamp(x, lo, hi) == IF Lt(x, lo) THEN lo ELSE IF Lt(hi, x) THEN hi ELSE x
FMax(x, y) == IF Lt(x, y) THEN y ELSE x

-----------------------------------------------------------------------------
(* Values of the program.                                                  *)

Half    == Lit(1, 2)
One     == FromInt(1)
Two     == FromInt(2)
Ten     == FromInt(10)

\* Option<T>
None    == <<>>
Some(v) == <<v>>
Unwrap(o) == o[1]

\* KeyCode values polled by update_bloom_settings
AllKeys == {"Space", "A", "Q", "S", "W", "D", "E", "F", "R", "G", "T", "H", "Y", "J", "U"}

\* BloomSettings::default() of the engine (Bevy 0.10: BloomSettings::NATURAL)
BloomDefault ==
    [intensity                     |-> Lit(15, 100),
     low_frequency_boost           |-> Lit(7, 10),
     low_frequency_boost_curvature |-> Lit(95, 100),
     high_pass_frequency           |-> One,
     composite_mode                |-> "EnergyConserving",
     threshold                     |-> Zero,
     threshold_softness            |-> Zero]

\* setup: BloomSettings { intensity: 0.35, ..BloomSettings::default() }
SetupBloom == [BloomDefault EXCEPT !.intensity = Lit(35, 100)]

-----------------------------------------------------------------------------
(* mouse_movement_system: every event of the batch overwrites cursor_pos.  *)

\* (variant: the first event of the batch wins)
mouse_movement_system_First(pos, events) ==
    IF events = <<>> THEN pos ELSE Some(Head(events))

RECURSIVE mouse_movement_system(_, _)
mouse_movement_system(pos, events) ==
    IF events = <<>> THEN pos
    ELSE mouse_movement_system(Some(Head(events)), Tail(events))

-----------------------------------------------------------------------------
(* mouse_click_system.                                                     *)

grid_size == Div(FromInt(600), FromInt(19))

\* (variant: the factor 2.0 is missing)
ScreenToBoardAxis_NoDouble(p, v) ==
    Mul(Sub(Div(p, v), Half), FromInt(300))

\* ((pos / size) - Vec2::new(0.5, 0.5)) * 2.0 * Vec2::new(300.0, 300.0), one axis
ScreenToBoardAxis(p, v) ==
    Mul(Mul(Sub(Div(p, v), Half), Two), FromInt(300))

\* world_pos before it is snapped; world_pos.y *= 1.0
ScreenToBoard(pos, size) ==
    <<ScreenToBoardAxis(pos[1], size[1]),
      Mul(ScreenToBoardAxis(pos[2], size[2]), One)>>

\* (variant: the cell index is multiplied by the line spacing 600/18)
SnapAxis_LineSpacing(x) ==
    Mul(Floor(Add(Div(x, grid_size), Half)), Div(FromInt(600), FromInt(18)))

\* (variant: the quotient is rounded half away from zero)
SnapAxis_HalfAway(x) ==
    LET q == Div(x, grid_size)
    IN IF Sign(q) = 1
       THEN Neg(Mul(Floor(Add(Neg(q), Half)), grid_size))
       ELSE Mul(Floor(Add(q, Half)), grid_size)

\* world_pos /= grid_size; (world_pos + 0.5).floor() * grid_size, one axis
SnapAxis(x) == Mul(Floor(Add(Div(x, grid_size), Half)), grid_size)

SnapToGrid(w) == <<SnapAxis(w[1]), SnapAxis(w[2])>>

\* the entity spawned for a stone: Transform::from_xyz(x, y, 2.0), Circle radius
StoneAt(w) == [x |-> w[1], y |-> w[2], radius |-> Mul(grid_size, Lit(4, 10))]

\* (variant: an unset position is read as the default Vec2, (0, 0))
mouse_click_system_NoGuard(mouse_button_inputs, cursor, size) ==
    IF mouse_button_inputs.just_pressed
    THEN <<[cmd   |-> "spawn",
            stone |-> StoneAt(SnapToGrid(ScreenToBoard(
                         IF cursor # None THEN Unwrap(cursor) ELSE <<Zero, Zero>>,
                         size)))]>>
    ELSE <<>>

\* (variant: pressed is polled in place of just_pressed)
mouse_click_system_Held(mouse_button_inputs, cursor, size) ==
    IF mouse_button_inputs.pressed
    THEN IF cursor # None
         THEN <<[cmd   |-> "spawn",
                 stone |-> StoneAt(SnapToGrid(ScreenToBoard(Unwrap(cursor), size)))]>>
         ELSE <<>>
    ELSE <<>>

\* The commands queued by one run of the system; mouse_button_inputs is the
\* Input<MouseButton> resource, read for MouseButton::Left.
mouse_click_system(mouse_button_inputs, cursor, size) ==
    IF mouse_button_inputs.just_pressed
    THEN IF cursor # None
         THEN <<[cmd   |-> "spawn",
                 stone |-> StoneAt(SnapToGrid(ScreenToBoard(Unwrap(cursor), size)))]>>
         ELSE <<>>
    ELSE <<>>

-----------------------------------------------------------------------------
(* update_bloom_settings.                                                  *)

\* The text of the enabled branch: one line per setting, in this order.  The
\* Display form of an f32 determines the value, so a line is modelled by it.
StatusText(b) ==
    <<"BloomSettings (Toggle: Space)", b.intensity, b.low_frequency_boost,
      b.low_frequency_boost_curvature, b.high_pass_frequency, b.composite_mode,
      b.threshold, b.threshold_softness>>

OffText == <<"Bloom: Off (Toggle: Space)">>

\* (variant: the decrease adds the step)
Adjust_DecAdds(x, dec, inc, step) ==
    LET x1 == IF dec THEN Add(x, step) ELSE x
    IN IF inc THEN Add(x1, step) ELSE x1

\* (variant: the two adjustments are each followed by a clamp)
Adjust_ClampBetween(x, dec, inc, step) ==
    LET x1 == IF dec THEN Clamp(Sub(x, step), Zero, One) ELSE x
    IN IF inc THEN Add(x1, step) ELSE x1

\* if pressed(dec) { x -= step }  if pressed(inc) { x += step }
Adjust(x, dec, inc, step) ==
    LET x1 == IF dec THEN Sub(x, step) ELSE x
    IN IF inc THEN Add(x1, step) ELSE x1

\* (variant: the clamp is missing)
AdjustClamped_NoClamp(x, dec, inc, step) == Adjust(x, dec, inc, step)

AdjustClamped(x, dec, inc, step) == Clamp(Adjust(x, dec, inc, step), Zero, One)

\* (variant: the threshold is clamped like the other settings)
AdjustThreshold_Clamped(x, dec, inc, step) == Clamp(Adjust(x, dec, inc, step), Zero, One)

\* threshold: x.max(0.0) after the adjustment
AdjustThreshold(x, dec, inc, step) == FMax(Adjust(x, dec, inc, step), Zero)

\* (variant: the two checks in the other order)
CompositeMode_GLast(mode, keycode) ==
    LET m1 == IF "T" \in keycode.pressed THEN "EnergyConserving" ELSE mode
    IN IF "G" \in keycode.pressed THEN "Additive" ELSE m1

CompositeMode(mode, keycode) ==
    LET m1 == IF "G" \in keycode.pressed THEN "Additive" ELSE mode
    IN IF "T" \in keycode.pressed THEN "EnergyConserving" ELSE m1

\* if keycode.just_pressed(KeyCode::Space) { remove::<BloomSettings>() }
ToggleOff(keycode) ==
    IF "Space" \in keycode.just_pressed THEN <<[cmd |-> "remove"]>> ELSE <<>>

\* (variant: pressed is polled in place of just_pressed)
ToggleOn_Held(keycode) ==
    IF "Space" \in keycode.pressed
    THEN <<[cmd |-> "insert", settings |-> BloomDefault]>> ELSE <<>>

\* (variant: the component is inserted as setup built it)
ToggleOn_AsSetup(keycode) ==
    IF "Space" \in keycode.just_pressed
    THEN <<[cmd |-> "insert", settings |-> SetupBloom]>> ELSE <<>>

\* (variant: the composite-mode keys are polled when the component is inserted)
ToggleOn_Polls(keycode) ==
    IF "Space" \in keycode.just_pressed
    THEN <<[cmd |-> "insert",
            settings |-> [BloomDefault EXCEPT
                             !.composite_mode = CompositeMode(@, keycode)]]>>
    ELSE <<>>

\* if keycode.just_pressed(KeyCode::Space) { insert(BloomSettings::default()) }
ToggleOn(keycode) ==
    IF "Space" \in keycode.just_pressed
    THEN <<[cmd |-> "insert", settings |-> BloomDefault]>> ELSE <<>>

\* One run of the system on the camera's component b (None when absent), with
\* keycode the Input<KeyCode> resource and delta = time.delta_seconds(): the
\* component afterwards, the text written and the commands queued.
update_bloom_settings(b, keycode, delta) ==
    IF b # None
    THEN LET s    == Unwrap(b)
             step == Div(delta, Ten)
             held == keycode.pressed
         IN [bloom |-> Some(
                [intensity |->
                     AdjustClamped(s.intensity, "A" \in held, "Q" \in held, step),
                 low_frequency_boost |->
                     AdjustClamped(s.low_frequency_boost, "S" \in held, "W" \in held, step),
                 low_frequency_boost_curvature |->
                     AdjustClamped(s.low_frequency_boost_curvature, "D" \in held,
                                   "E" \in held, step),
                 high_pass_frequency |->
                     AdjustClamped(s.high_pass_frequency, "F" \in held, "R" \in held, step),
                 composite_mode |-> CompositeMode(s.composite_mode, keycode),
                 threshold |->
                     AdjustThreshold(s.threshold, "H" \in held, "Y" \in held, delta),
                 threshold_softness |->
                     AdjustClamped(s.threshold_softness, "J" \in held, "U" \in held, step)]),
             text  |-> StatusText(s),
             cmds  |-> ToggleOff(keycode)]
    ELSE [bloom |-> None, text |-> OffText, cmds |-> ToggleOn(keycode)]

-----------------------------------------------------------------------------
(* The engine around the systems.                                          *)

\* apply_system_buffers: the queued commands take effect in queue order.
RECURSIVE ApplyBloomCommands(_, _)
ApplyBloomCommands(b, cmds) ==
    IF cmds = <<>> THEN b
    ELSE LET c == Head(cmds)
         IN ApplyBloomCommands(
                IF c.cmd = "remove" THEN None
                ELSE IF c.cmd = "insert" THEN Some(c.settings)
                ELSE b,
                Tail(cmds))

RECURSIVE ApplySpawnCommands(_, _)
ApplySpawnCommands(st, cmds) ==
    IF cmds = <<>> THEN st
    ELSE LET c == Head(cmds)
         IN ApplySpawnCommands(IF c.cmd = "spawn" THEN Append(st, c.stone) ELSE st,
                               Tail(cmds))

Systems == {"update_bloom_settings", "mouse_movement_system", "mouse_click_system"}

\* The orders in which the scheduler may run the systems of one frame.
Orders ==
    {o \in [1..3 -> Systems] : \A i, j \in 1..3 : i # j => o[i] # o[j]}

-----------------------------------------------------------------------------
(* Bounds and inputs.                                                      *)

\* frames of the step-by-step specification Spec
MaxFrames == 2
\* frames of the keyboard specification BloomSpec
MaxKeyFrames == 3
\* frames of the pointer specification ClickSpec
MaxClickFrames == 1
\* seconds for which the specification HoldSpec holds a key
MaxHoldSeconds == 11
\* frames of the sweep specification GridSpec
MaxGridFrames == 1

\* Held-key sets offered to a frame: none, every single key, the two keys of one
\* setting together, and the toggle together with an adjustment key.
KeyChords ==
    {{}} \cup {{k} : k \in AllKeys}
    \cup {{"A", "Q"}, {"S", "W"}, {"D", "E"}, {"F", "R"}, {"G", "T"}, {"H", "Y"}, {"J", "U"}}
    \cup {{"Space", "Q"}, {"Space", "Y"}, {"Space", "G"}}

SmallChords == {{}, {"Space"}, {"G", "T"}}

\* time.delta_seconds(): 1/60 s, and a stall of 4 s
Deltas == {Lit(1, 60), FromInt(4)}

SmallDeltas == {Lit(1, 60)}

\* Frame times of a run at a constant frame rate: 1/60 s, and frame times that
\* are binary fractions, so that their sums are exact.
HoldDeltas == {Lit(1, 60), Lit(1, 16), Lit(1, 8), Lit(7, 16), Lit(1, 2), One}

Vec2(a, b) == <<FromInt(a), FromInt(b)>>

\* window sizes (logical pixels)
WindowSizes == {Vec2(800, 600), Vec2(1024, 768)}

\* Cursor coordinates: corners, centres and points in between of the windows
\* above, and 9713125 / 2^14 = 592.8421..., whose quotient by 1024 is the f32
\* just below 11/19.
Coordinates ==
    {FromInt(n) : n \in {0, 300, 384, 400, 512, 600, 768, 800, 1024}}
    \cup {<<0, -14, 9713125>>}

InWindow(pos, size) ==
    /\ ~Lt(size[1], pos[1])
    /\ ~Lt(size[2], pos[2])

Positions == {pos \in Coordinates \X Coordinates : \E size \in WindowSizes : InWindow(pos, size)}

SmallPositions == {Vec2(400, 300), Vec2(100, 500)}

\* Cursor coordinates of a sweep across the window: every 16th pixel from edge
\* to edge (the cells of the board are at least 31 pixels wide), and 600.
GridCoordinates == {FromInt(16 * n) : n \in 0..64} \cup {FromInt(600)}

\* The sweep: along each axis with the other coordinate at the centre of the
\* window, and the four corners.
GridPositions(size) ==
    LET xs == {x \in GridCoordinates : ~Lt(size[1], x)}
        ys == {y \in GridCoordinates : ~Lt(size[2], y)}
    IN {<<x, Div(size[2], Two)>> : x \in xs}
       \cup {<<Div(size[1], Two), y>> : y \in ys}
       \cup ({Zero, size[1]} \X {Zero, size[2]})

SmallBatches ==
    {<<>>} \cup {<<p>> : p \in SmallPositions}
    \cup {<<p, q>> : p \in SmallPositions, q \in SmallPositions}

-----------------------------------------------------------------------------
(* State.                                                                  *)

VARIABLES
    bloom,            \* the camera's BloomSettings component: None or Some(settings)
    text,             \* text.sections[0].value
    cursor_pos,       \* MouseState.cursor_pos
    stones,           \* the stone entities spawned so far, in spawn order
    commands,         \* Commands queued by the systems of the running frame
    keysPressed,      \* Input<KeyCode>: pressed
    keysJustPressed,  \* Input<KeyCode>: just_pressed
    leftPressed,      \* Input<MouseButton>: pressed(Left)
    leftJustPressed,  \* Input<MouseButton>: just_pressed(Left)
    cursorEvents,     \* CursorMoved events delivered to the running frame
    delta,            \* time.delta_seconds()
    window,           \* (window.width(), window.height())
    ran,              \* systems that have run in the running frame
    pc,               \* "first": between frames; "update": the systems run
    frame             \* frames started

vars == <<bloom, text, cursor_pos, stones, commands, keysPressed, keysJustPressed,
          leftPressed, leftJustPressed, cursorEvents, delta, window, ran, pc, frame>>

inputVars == <<keysPressed, keysJustPressed, leftPressed, leftJustPressed,
               cursorEvents, delta>>

\* The Input resources as the systems of the running frame read them.
Input(pressed, just_pressed) == [pressed |-> pressed, just_pressed |-> just_pressed]
KeyInput   == Input(keysPressed, keysJustPressed)
MouseInput == Input(leftPressed, leftJustPressed)

\* main and setup have run; no frame has.
Init ==
    /\ bloom = Some(SetupBloom)
    /\ text = <<>>
    /\ cursor_pos = None
    /\ stones = <<>>
    /\ commands = <<>>
    /\ keysPressed = {}
    /\ keysJustPressed = {}
    /\ leftPressed = FALSE
    /\ leftJustPressed = FALSE
    /\ cursorEvents = <<>>
    /\ delta = Zero
    /\ window \in WindowSizes
    /\ ran = {}
    /\ pc = "first"
    /\ frame = 0

\* The engine's work before the systems of a frame: the input snapshot (a key
\* or button is just_pressed in the frame in which it goes from released to
\* pressed), the frame's CursorMoved events and the frame time.
Deliver(keys, left, events, dt) ==
    /\ keysPressed' = keys
    /\ keysJustPressed' = keys \ keysPressed
    /\ leftPressed' = left
    /\ leftJustPressed' = (left /\ ~leftPressed)
    /\ cursorEvents' = events
    /\ delta' = dt

BeginFrame ==
    /\ pc = "first"
    /\ frame < MaxFrames
    /\ \E keys \in SmallChords, left \in BOOLEAN, events \in SmallBatches,
          dt \in SmallDeltas :
          Deliver(keys, left, events, dt)
    /\ pc' = "update"
    /\ frame' = frame + 1
    /\ UNCHANGED <<bloom, text, cursor_pos, stones, commands, window, ran>>

RunMouseMovement ==
    /\ pc = "update"
    /\ "mouse_movement_system" \notin ran
    /\ cursor_pos' = mouse_movement_system(cursor_pos, cursorEvents)
    /\ ran' = ran \cup {"mouse_movement_system"}
    /\ UNCHANGED <<bloom, text, stones, commands, window, pc, frame>>
    /\ UNCHANGED inputVars

RunMouseClick ==
    /\ pc = "update"
    /\ "mouse_click_system" \notin ran
    /\ commands' = commands \o mouse_click_system(MouseInput, cursor_pos, window)
    /\ ran' = ran \cup {"mouse_click_system"}
    /\ UNCHANGED <<bloom, text, cursor_pos, stones, window, pc, frame>>
    /\ UNCHANGED inputVars

RunUpdateBloom ==
    /\ pc = "update"
    /\ "update_bloom_settings" \notin ran
    /\ LET r == update_bloom_settings(bloom, KeyInput, delta)
       IN /\ bloom' = r.bloom
          /\ text' = r.text
          /\ commands' = commands \o r.cmds
    /\ ran' = ran \cup {"update_bloom_settings"}
    /\ UNCHANGED <<cursor_pos, stones, window, pc, frame>>
    /\ UNCHANGED inputVars

\* All systems have run: the queued commands are applied and the frame ends.
EndFrame ==
    /\ pc = "update"
    /\ ran = Systems
    /\ bloom' = ApplyBloomCommands(bloom, commands)
    /\ stones' = ApplySpawnCommands(stones, commands)
    /\ commands' = <<>>
    /\ ran' = {}
    /\ pc' = "first"
    /\ UNCHANGED <<text, cursor_pos, window, frame>>
    /\ UNCHANGED inputVars

Next == BeginFrame \/ RunMouseMovement \/ RunMouseClick \/ RunUpdateBloom \/ EndFrame

Spec == Init /\ [][Next]_vars

-----------------------------------------------------------------------------
(* Whole frames as single steps.                                           *)

\* The state the systems read and write, as a record.
World(b, t, c, q) == [bloom |-> b, text |-> t, cursor_pos |-> c, commands |-> q]

\* One system run on w under the frame's inputs.
RunSystem(sys, w, keycode, mouse, events, dt, size) ==
    IF sys = "mouse_movement_system"
    THEN [w EXCEPT !.cursor_pos = mouse_movement_system(w.cursor_pos, events)]
    ELSE IF sys = "mouse_click_system"
    THEN [w EXCEPT !.commands = w.commands \o mouse_click_system(mouse, w.cursor_pos, size)]
    ELSE LET r == update_bloom_settings(w.bloom, keycode, dt)
         IN [w EXCEPT !.bloom = r.bloom, !.text = r.text,
                      !.commands = w.commands \o r.cmds]

\* The world after the three systems have run in order o.
RunSystems(o, keycode, mouse, events, dt) ==
    RunSystem(o[3],
        RunSystem(o[2],
            RunSystem(o[1], World(bloom, text, cursor_pos, commands),
                      keycode, mouse, events, dt, window),
            keycode, mouse, events, dt, window),
        keycode, mouse, events, dt, window)

\* A frame from BeginFrame to EndFrame with the systems run in order o.
Frame(keys, left, events, dt, o) ==
    /\ pc = "first"
    /\ Deliver(keys, left, events, dt)
    /\ \E w \in {RunSystems(o, Input(keys, keys \ keysPressed),
                             Input(left, left /\ ~leftPressed), events, dt)} :
          /\ bloom' = ApplyBloomCommands(w.bloom, w.commands)
          /\ stones' = ApplySpawnCommands(stones, w.commands)
          /\ text' = w.text
          /\ cursor_pos' = w.cursor_pos
    /\ commands' = <<>>
    /\ frame' = frame + 1
    /\ UNCHANGED <<window, ran, pc>>

\* The order in which main registers the systems.
RegistrationOrder ==
    <<"update_bloom_settings", "mouse_movement_system", "mouse_click_system">>

\* Frames driven by the keyboard and the frame time; the pointer is idle.  With
\* no cursor event and no click the two pointer systems change nothing, so the
\* order of the systems is immaterial here and the registration order is used.
KeyFrame ==
    /\ frame < MaxKeyFrames
    /\ \E keys \in KeyChords, dt \in Deltas :
          Frame(keys, FALSE, <<>>, dt, RegistrationOrder)

BloomSpec == Init /\ [][KeyFrame]_vars

\* Frames driven by the pointer: the cursor moves to a position inside the
\* window and the left button is pressed or released; no key is held.
ClickFrame ==
    /\ frame < MaxClickFrames
    /\ \E pos \in Positions, left \in BOOLEAN, o \in Orders :
          /\ InWindow(pos, window)
          /\ Frame({}, left, <<pos>>, Lit(1, 60), o)

ClickSpec == Init /\ [][ClickFrame]_vars

\* The sum of the frame times so far in a run whose frames all take the time
\* delta.  (For the frame times of HoldDeltas the product is exact, except for
\* 1/60 s, where its rounding error is far smaller than one frame time.)
Elapsed == Mul(FromInt(frame), delta)

\* Frames at a constant frame rate in which only the decrease-intensity key (A)
\* is held; the pointer is idle.
HoldFrame ==
    /\ Lt(Elapsed, FromInt(MaxHoldSeconds))
    /\ \E dt \in HoldDeltas :
          /\ frame = 0 \/ dt = delta
          /\ Frame({"A"}, FALSE, <<>>, dt, RegistrationOrder)

HoldSpec == Init /\ [][HoldFrame]_vars

\* Frames in which the cursor moves to a position of the sweep and the left
\* button is pressed or released; no key is held.  The systems run in the
\* registration order (ClickSpec explores the other orders).
GridFrame ==
    /\ frame < MaxGridFrames
    /\ \E pos \in GridPositions(window), left \in BOOLEAN :
          Frame({}, left, <<pos>>, Lit(1, 60), RegistrationOrder)

GridSpec == Init /\ [][GridFrame]_vars

-----------------------------------------------------------------------------
(* Properties.                                                             *)

Enabled == bloom # None

InUnit(x) == ~Lt(x, Zero) /\ ~Lt(One, x)

\* steps of Spec
MoveRuns  == "mouse_movement_system" \notin ran /\ "mouse_movement_system" \in ran'
ClickRuns == "mouse_click_system" \notin ran /\ "mouse_click_system" \in ran'
FrameEnds == pc = "update" /\ pc' = "first"

Spawns(cmds) == SelectSeq(cmds, LAMBDA c : c.cmd = "spawn")

IsPrefix(a, b) == Len(a) <= Len(b) /\ SubSeq(b, 1, Len(a)) = a

\* The stone the click handler makes of screen position pos.
StoneFor(pos) == StoneAt(SnapToGrid(ScreenToBoard(pos, window)))

\* C1: while bloom is Enabled, after any frames with any held keys and frame
\* times, intensity, low_frequency_boost, low_frequency_boost_curvature,
\* high_pass_frequency and threshold_softness are within [0.0, 1.0] and
\* threshold is >= 0.0.
C1_ParametersInRange ==
    Enabled =>
        LET s == Unwrap(bloom)
        IN /\ InUnit(s.intensity)
           /\ InUnit(s.low_frequency_boost)
           /\ InUnit(s.low_frequency_boost_curvature)
           /\ InUnit(s.high_pass_frequency)
           /\ InUnit(s.threshold_softness)
           /\ ~Lt(s.threshold, Zero)

\* C1 witness: intensity has been driven to the lower bound while the threshold
\* has grown past 1.0.
C1_Witness ==
    /\ Enabled
    /\ Unwrap(bloom).intensity = Zero
    /\ Lt(One, Unwrap(bloom).threshold)

\* C2: the bloom state changes in a frame exactly when the toggle key goes from
\* released to pressed in that frame; a key that stays held changes nothing.
C2_ToggleOncePerEdge ==
    [][(Enabled' # Enabled) <=> ("Space" \in keysPressed' /\ "Space" \notin keysPressed)]_vars

\* C2 witness: the toggle key was pressed while Enabled and is still held a
\* frame later; bloom is Disabled.
C2_Witness ==
    /\ ~Enabled
    /\ "Space" \in keysPressed
    /\ "Space" \notin keysJustPressed
    /\ text = OffText

\* C3: a run of the click handler queues exactly one stone when the button has
\* a rising edge and the pointer position is set, and none otherwise (a held
\* button has no rising edge); the stones grow by exactly the queued stones at
\* the end of the frame and are otherwise never changed, removed or moved.
C3_OneStonePerEdge ==
    [][/\ (pc = "first" /\ pc' = "update")
            => (leftJustPressed' <=> (leftPressed' /\ ~leftPressed))
       /\ ClickRuns
            => Len(Spawns(commands')) = Len(Spawns(commands))
                 + (IF leftJustPressed /\ cursor_pos # None THEN 1 ELSE 0)
       /\ ~ClickRuns => Spawns(commands') = Spawns(commands) \/ FrameEnds
       /\ FrameEnds => Len(stones') = Len(stones) + Len(Spawns(commands))
       /\ ~FrameEnds => stones' = stones
       /\ IsPrefix(stones, stones')]_vars

\* C3 witness: a stone was placed by a press, and in the following frame the
\* button is still held and the frame has ended without a second stone.
C3_Witness ==
    /\ pc = "first"
    /\ Len(stones) = 1
    /\ leftPressed
    /\ ~leftJustPressed
    /\ cursor_pos # None

\* C4: with the pointer position unset, a rising edge of the button changes
\* nothing: no stone is queued, and the pointer state, the stones and the bloom
\* state stay as they are.
C4_NoPositionNoOp ==
    [][(ClickRuns /\ leftJustPressed /\ cursor_pos = None)
          => UNCHANGED <<commands, cursor_pos, stones, bloom, text>>]_vars

\* C4 witness: the click handler has run on a rising edge with no position.
C4_Witness ==
    /\ "mouse_click_system" \in ran
    /\ leftJustPressed
    /\ cursor_pos = None
    /\ Spawns(commands) = <<>>

\* floor(19 * x), exactly
Floor19(x) ==
    LET X == (IF Sign(x) = 1 THEN -1 ELSE 1) * 19 * Mant(x)
        d == -Expo(x)
    IN IF Mant(x) = 0 THEN 0
       ELSE IF d >= 30 THEN (IF X < 0 THEN -1 ELSE 0)
       ELSE X \div 2^d

\* k*g - g/2 <= x < k*g + g/2 for g = 600/19, exactly
InCell(x, k) ==
    /\ (2 * k - 1) * 300 <= Floor19(x)
    /\ Floor19(x) < (2 * k + 1) * 300

\* C5: for every board coordinate x with k*g - g/2 <= x < k*g + g/2, g = 600/19,
\* the snap step returns k*g, on each axis.  (Here: for the board coordinates of
\* a click in the first frame, read off the stone it created.)
C5_SnapCorrect ==
    (frame = 1 /\ Len(stones) = 1) =>
        LET w == ScreenToBoard(Unwrap(cursor_pos), window)
        IN \A k \in -10..10 :
              /\ InCell(w[1], k) => stones[1].x = Mul(FromInt(k), grid_size)
              /\ InCell(w[2], k) => stones[1].y = Mul(FromInt(k), grid_size)

\* C6: the screen-to-board mapping sends, on each axis, the middle of the
\* viewport to 0, the screen coordinate 0 to -300 and the far edge to 300; a
\* click at (400, 300) in an 800 x 600 viewport creates a stone at (0, 0) with
\* radius 0.4 * 600/19.
C6_MappingFixedPoints ==
    [][/\ \A i \in {j \in 1..2 : cursor_pos' # None} :
             LET p == Unwrap(cursor_pos')[i]
                 v == window[i]
                 w == ScreenToBoard(Unwrap(cursor_pos'), window)[i]
             IN /\ p = Div(v, Two) => w = Zero
                /\ p = Zero => w = FromInt(-300)
                /\ p = v => w = FromInt(300)
       /\ (/\ Len(stones') = Len(stones) + 1
           /\ cursor_pos \in {None, cursor_pos'}
           /\ cursor_pos' = Some(Vec2(400, 300))
           /\ window = Vec2(800, 600))
            => stones'[Len(stones')] =
                   [x |-> Zero, y |-> Zero, radius |-> Mul(Lit(4, 10), grid_size)]]_vars

\* C6 witness: the click at the centre of the 800 x 600 viewport has placed its
\* stone.
C6_Witness ==
    /\ Len(stones) = 1
    /\ cursor_pos = Some(Vec2(400, 300))
    /\ window = Vec2(800, 600)

\* C7: in a frame in which bloom is Enabled (and stays attached), compositeMode
\* ends as EnergyConserving when the EnergyConserving key (T) is held, also
\* together with the Additive key (G); as Additive when only G is held; and
\* unchanged when neither is held.
C7_CompositeModeKeys ==
    [][(Enabled /\ Enabled')
          => Unwrap(bloom').composite_mode =
                 IF "T" \in keysPressed' THEN "EnergyConserving"
                 ELSE IF "G" \in keysPressed' THEN "Additive"
                 ELSE Unwrap(bloom).composite_mode]_vars

\* C7 witness: both keys were held in a frame that began with Additive (the
\* status text shows the mode the frame began with) and ended EnergyConserving.
C7_Witness ==
    /\ Enabled
    /\ {"G", "T"} \subseteq keysPressed
    /\ Len(text) = 8
    /\ text[6] = "Additive"
    /\ Unwrap(bloom).composite_mode = "EnergyConserving"

\* C8: a run of the pointer tracker leaves cursor_pos at the position of the
\* last movement event of the frame's batch, and unchanged when the batch is
\* empty.
C8_LastEventWins ==
    [][MoveRuns
          => cursor_pos' = IF cursorEvents = <<>> THEN cursor_pos
                           ELSE Some(cursorEvents[Len(cursorEvents)])]_vars

\* C8 witness: the tracker has run on a batch of two different positions.
C8_Witness ==
    /\ "mouse_movement_system" \in ran
    /\ Len(cursorEvents) = 2
    /\ cursorEvents[1] # cursorEvents[2]
    /\ cursor_pos = Some(cursorEvents[2])

\* C9: the handlers run in the order pointer tracker, stone placement, bloom
\* controller, so a stone placed in a frame that delivered movement events is
\* computed from the last movement event of that frame.
C9_StoneFromThisFrame ==
    ("mouse_click_system" \in ran /\ cursorEvents # <<>>)
        => \A i \in 1..Len(commands) :
              commands[i].cmd = "spawn"
                  => commands[i].stone = StoneFor(cursorEvents[Len(cursorEvents)])

\* C10 as claimed: a Disabled to Enabled transition creates the configuration
\* the scene starts with (intensity 0.35).
C10_ReenabledAsStarted ==
    [][(~Enabled /\ Enabled') => bloom' = Some(SetupBloom)]_vars

\* C10 amended: a Disabled to Enabled transition creates the engine's default
\* configuration whatever the values were before bloom was disabled; the scene
\* starts with that default except for intensity, which setup sets to 0.35.
C10_ReenabledAsDefault ==
    [][/\ (~Enabled /\ Enabled') => bloom' = Some(BloomDefault)
       /\ frame = 0 => bloom = Some([BloomDefault EXCEPT !.intensity = Lit(35, 100)])]_vars

\* C10 witness: bloom, which started with intensity 0.35, was switched off and is
\* Enabled again with the default configuration; the frame that switched it on
\* wrote the off text.
C10_Witness ==
    /\ bloom = Some(BloomDefault)
    /\ text = OffText
    /\ frame = 3

\* C11 as claimed: with only the decrease-intensity key held from the start,
\* every frame sets intensity to intensity - dt/10 floored at 0.0, intensity is
\* never negative, and it is exactly 0.0 once the frame times sum to 3.5 s (so
\* also once they sum to 10.0 s) and from then on.
C11_ZeroAfterThreeAndAHalf ==
    /\ [][Unwrap(bloom').intensity =
             FMax(Sub(Unwrap(bloom).intensity, Div(delta', Ten)), Zero)]_vars
    /\ [](~Lt(Unwrap(bloom).intensity, Zero))
    /\ [](~Lt(Elapsed, Lit(7, 2)) => Unwrap(bloom).intensity = Zero)

\* C11 amended: every frame sets intensity to the single-precision difference
\* intensity - dt/10 floored at 0.0; intensity is never negative; once the
\* frame times sum to 10.0 s it is exactly 0.0, and once it is 0.0 it stays 0.0
\* while the key is held.  (When the frame times sum to 3.5 s it need not be
\* 0.0 yet: the rounded differences can leave a small positive rest.)
C11_ZeroAfterTen ==
    /\ [][/\ Unwrap(bloom').intensity =
                FMax(Sub(Unwrap(bloom).intensity, Div(delta', Ten)), Zero)
           /\ Unwrap(bloom).intensity = Zero => Unwrap(bloom').intensity = Zero]_vars
    /\ [](~Lt(Unwrap(bloom).intensity, Zero))
    /\ [](~Lt(Elapsed, Ten) => Unwrap(bloom).intensity = Zero)

\* C11 witness: the key has been held for 10 s of frames of 1/8 s and intensity
\* is 0.0.
C11_Witness ==
    /\ keysPressed = {"A"}
    /\ delta = Lit(1, 8)
    /\ frame = 80
    /\ Unwrap(bloom).intensity = Zero

\* C12: the snap step is idempotent: for the board coordinate x of a click, the
\* stone lies at snap(x) and snap(snap(x)) = snap(x) on each axis, so a click
\* whose board position is the position of an existing stone creates a stone
\* at that same position.
C12_SnapIdempotent ==
    /\ (leftJustPressed /\ stones # <<>>) =>
          LET w == ScreenToBoard(Unwrap(cursor_pos), window)
              s == stones[Len(stones)]
          IN /\ s.x = SnapAxis(w[1]) /\ SnapAxis(SnapAxis(w[1])) = SnapAxis(w[1])
             /\ s.y = SnapAxis(w[2]) /\ SnapAxis(SnapAxis(w[2])) = SnapAxis(w[2])
    /\ \A i \in 1..Len(stones) :
          /\ SnapAxis(stones[i].x) = stones[i].x
          /\ SnapAxis(stones[i].y) = stones[i].y
          /\ StoneAt(SnapToGrid(<<stones[i].x, stones[i].y>>)) = stones[i]

\* C12 witness: a click has placed a stone seven cells right of the centre.
C12_Witness ==
    /\ Len(stones) = 1
    /\ stones[1].x = Mul(FromInt(7), grid_size)
    /\ stones[1].y = Zero

\* C17: every stone created by a click at a position inside the viewport sits at
\* (i*g, j*g) with g = 600/19 and i, j in -9..10; -10*g is never produced.
C17_StoneIndexRange ==
    \A n \in 1..Len(stones) :
        /\ \E i \in -9..10 : stones[n].x = Mul(FromInt(i), grid_size)
        /\ \E j \in -9..10 : stones[n].y = Mul(FromInt(j), grid_size)
        /\ stones[n].x # Mul(FromInt(-10), grid_size)
        /\ stones[n].y # Mul(FromInt(-10), grid_size)

\* C17 witness: a click at the far corner of the viewport has placed a stone at
\* (10*g, 10*g), beyond the board's extent of 300.
C17_Witness ==
    /\ Len(stones) = 1
    /\ cursor_pos = Some(window)
    /\ stones[1].x = Mul(Ten, grid_size)
    /\ stones[1].y = Mul(Ten, grid_size)
    /\ Lt(FromInt(300), stones[1].x)

\* C13: at the end of every frame in which bloom is Enabled, the status text
\* shows the values the seven settings have after that frame's key adjustments
\* and clamping, not the values from before them.
C13_TextShowsAdjustedValues ==
    [][(Enabled /\ Enabled') => text' = StatusText(Unwrap(bloom'))]_vars

\* C14: in a frame in which bloom is Disabled the text is the fixed off message
\* and no setting key is polled: bloom stays Disabled unless the toggle key goes
\* down in the frame, and then it is enabled with the same configuration
\* whatever other keys are held.
C14_DisabledIgnoresKeys ==
    [][~Enabled =>
          /\ text' = OffText
          /\ bloom' = IF "Space" \in keysPressed' /\ "Space" \notin keysPressed
                      THEN Some(BloomDefault) ELSE None]_vars

\* C14 witness: bloom was Disabled and has been enabled by a frame in which the
\* Additive key was held together with the toggle key.
C14_Witness ==
    /\ text = OffText
    /\ keysPressed = {"Space", "G"}
    /\ bloom = Some(BloomDefault)

\* the setting changes from x to y in a frame that holds both of its keys
BothHeld(dec, inc) == {dec, inc} \subseteq keysPressed'

\* C15 as claimed: while Enabled, a frame in which both keys of a continuous
\* setting are held leaves the setting unchanged, for every value and dt.
C15_BothKeysNetZero ==
    [][(Enabled /\ Enabled') =>
          LET s == Unwrap(bloom)
              t == Unwrap(bloom')
          IN /\ BothHeld("A", "Q") => t.intensity = s.intensity
             /\ BothHeld("S", "W") => t.low_frequency_boost = s.low_frequency_boost
             /\ BothHeld("D", "E") =>
                    t.low_frequency_boost_curvature = s.low_frequency_boost_curvature
             /\ BothHeld("F", "R") => t.high_pass_frequency = s.high_pass_frequency
             /\ BothHeld("H", "Y") => t.threshold = s.threshold
             /\ BothHeld("J", "U") => t.threshold_softness = s.threshold_softness]_vars

\* x and y are equal when x is one of the ends, and closer than a millionth
\* otherwise
NetZero(x, y, ends) ==
    /\ x \in ends => y = x
    /\ MagLt(Sub(y, x), Lit(1, 1000000))

\* C15 amended: while Enabled, a frame in which both keys of a continuous
\* setting are held leaves the setting unchanged up to the rounding of the
\* subtraction and of the addition: it is exactly unchanged at 0.0 (and at 1.0
\* for the settings clamped to [0, 1]), and elsewhere it moves by at most a
\* rounding step.
C15_BothKeysNetZeroRounded ==
    [][(Enabled /\ Enabled') =>
          LET s == Unwrap(bloom)
              t == Unwrap(bloom')
          IN /\ BothHeld("A", "Q") => NetZero(s.intensity, t.intensity, {Zero, One})
             /\ BothHeld("S", "W") =>
                    NetZero(s.low_frequency_boost, t.low_frequency_boost, {Zero, One})
             /\ BothHeld("D", "E") =>
                    NetZero(s.low_frequency_boost_curvature,
                            t.low_frequency_boost_curvature, {Zero, One})
             /\ BothHeld("F", "R") =>
                    NetZero(s.high_pass_frequency, t.high_pass_frequency, {Zero, One})
             /\ BothHeld("H", "Y") => NetZero(s.threshold, t.threshold, {Zero})
             /\ BothHeld("J", "U") =>
                    NetZero(s.threshold_softness, t.threshold_softness, {Zero, One})]_vars

\* C15 witness: both high-pass keys were held for a frame of 4 s with the
\* setting at its upper bound, and both softness keys were not: the settings
\* are at 1.0 and 0.0.
C15_Witness ==
    /\ Enabled
    /\ keysPressed = {"F", "R"}
    /\ delta = FromInt(4)
    /\ Unwrap(bloom).high_pass_frequency = One

\* dt/10 for the frame times of BloomSpec
TenthOf == [dt \in Deltas |-> Div(dt, Ten)]

\* x + step, at most 1.0; x - step, at least 0.0
StepUp(x, step) == LET z == Add(x, step) IN IF Lt(One, z) THEN One ELSE z
StepDown(x, step) == LET z == Sub(x, step) IN IF Lt(z, Zero) THEN Zero ELSE z

\* a setting stepped by dt/10 from x to y: up to at most 1.0 when only its
\* increase key is held, down to at least 0.0 when only its decrease key is
\* held, and never above 1.0
TenthStep(x, y, dec, inc) ==
    /\ (inc \in keysPressed' /\ dec \notin keysPressed')
         => y = StepUp(x, TenthOf[delta'])
    /\ (dec \in keysPressed' /\ inc \notin keysPressed')
         => y = StepDown(x, TenthOf[delta'])
    /\ ~Lt(One, y)

====
